---- MODULE Spec2Model ----
(***************************************************************************)
(* Model of the building generator / grid index / collision query of       *)
(* src/src/gen_buildings.cpp and of the light source model and trigger     *)
(* state machine of src/src/light_source.cpp.                              *)
(*                                                                         *)
(* Floating point values are modelled as exact integers.  Building         *)
(* coordinates are integers in world units; where the code scales by 0.1   *)
(* (the 10% margin) both sides of the comparison are taken times ten.      *)
(* Light colours, directions and beam widths are fixed point with FP = 1.0.*)
(***************************************************************************)
EXTENDS Integers, Sequences, FiniteSets, TLC

VARIABLES
    \* building_creator_t (gen_buildings.cpp:210-226)
    place_radius, range, buildings, grid,
    \* gen(): arguments and environment read at entry, and its position
    params, env, pc, gi, gn, num_skip,
    \* the omp parallel for of the terrain conformance pass
    wpc, wtmp, hmap_flat,
    \* the last call made on the creator and what it returned
    ret,
    \* light_source_trig: the trigger state machine (light_source.cpp:266-296)
    enabled, active_time, inactive_time, triggers, tlast,
    \* light_source: the two lights of a merge, and what the last call returned
    src, ls, nmerge, lret,
    \* light_source::is_visible: the light, the world of the call, the position in
    \* the ray loop, and the function's statics dirs (its size) and ray_map
    vl, world, vpc, vn, cur_dir, ndirs, ray_dir, ray_map, prev_cindex, vret,
    \* rgen of the creator: the stream the seed of gen() selects, as far as it has
    \* been drawn, and the position in it; the result of the run before this one
    tape, tpos, prev,
    \* bind_point_t of a placed light (bound, valid, bind_cobj), the collision
    \* objects around its binding point, and whether is_valid has returned false
    bound, valid, bind_cobj, cobjs, seen_false,
    \* the shadow map of a light_source_trig: the light's kind, its smap_data
    \* pointer, the local_smap_data_t objects of the heap, the first undefined
    \* operation on one of them, and the last call with what it did
    skind, smap_data, smap_heap, smap_ub, sret

bvars == <<place_radius, range, buildings, grid, params, env, pc, gi, gn,
           num_skip, wpc, wtmp, hmap_flat, ret>>
tvars == <<enabled, active_time, inactive_time, triggers, tlast>>
lvars == <<src, ls, nmerge, lret>>
vvars == <<vl, world, vpc, vn, cur_dir, ndirs, ray_dir, ray_map, prev_cindex, vret>>
dvars == <<tape, tpos, prev>>
svars == <<bound, valid, bind_cobj, cobjs, seen_false, skind, smap_data, smap_heap,
           smap_ub, sret>>
vars == <<bvars, tvars, lvars, vvars, dvars, svars>>

----------------------------------------------------------------------------
(* Bounds of the model *)

\* largest params.num
MaxNum == 3
\* params.pos_range is [0, RangeMax] in x and y
RangeMax == 31
\* a draw of rand_uniform(lo, hi) is one of RandSteps+1 evenly spaced points
RandSteps == 3

----------------------------------------------------------------------------
(* cube_t and point helpers (3DWorld.h; declarations only in this excerpt) *)

Min(a, b) == IF a < b THEN a ELSE b
Max(a, b) == IF a > b THEN a ELSE b

\* a cube is <<<<x0,x1>>, <<y0,y1>>, <<z0,z1>>>>, c[d][1] = d[d][0], c[d][2] = d[d][1]
ZeroCube == <<<<0, 0>>, <<0, 0>>, <<0, 0>>>>

is_all_zeros(c) == c = ZeroCube

\* cube_t::intersects_xy: open-interval overlap of the XY projections
intersects_xy(a, b) ==
    \A d \in 1..2 : ~(b[d][1] >= a[d][2] \/ b[d][2] <= a[d][1])

union_with_cube(a, b) ==
    [d \in 1..3 |-> <<Min(a[d][1], b[d][1]), Max(a[d][2], b[d][2])>>]

\* cube_t::clamp_pt, one coordinate
clamp_coord(v, lo, hi) == Max(lo, Min(hi, v))

get_llc(c) == <<c[1][1], c[2][1], c[3][1]>>
get_urc(c) == <<c[1][2], c[2][2], c[3][2]>>

\* the cube times ten, and the cube expanded by 0.1*get_size() times ten
times_ten(c) == [d \in 1..3 |-> <<10 * c[d][1], 10 * c[d][2]>>]
expand_by_tenth(c) ==
    [d \in 1..3 |-> <<10 * c[d][1] - (c[d][2] - c[d][1]),
                      10 * c[d][2] + (c[d][2] - c[d][1])>>]

----------------------------------------------------------------------------
(* Grid index *)

grid_sz == 32

GridCells == 0 .. (grid_sz * grid_sz - 1)

\* grid.resize(grid_sz*grid_sz): empty cells with a default (zeroed) bcube
EmptyGridElem == [ixs |-> <<>>, bcube |-> ZeroCube]

\* grid_elem_t::add
grid_elem_add(ge, c, ix) ==
    [ixs   |-> Append(ge.ixs, ix),
     bcube |-> IF ge.ixs = <<>> THEN c ELSE union_with_cube(ge.bcube, c)]

\* get_grid_pos: clamp into range, normalise, scale by grid_sz-1, truncate
get_grid_pos(rng, pos) ==
    [d \in 1..2 |->
        ((clamp_coord(pos[d], rng[d][1], rng[d][2]) - rng[d][1]) * (grid_sz - 1))
            \div (rng[d][2] - rng[d][1])]

\* get_grid_range: <<lo, hi>>, each <<gx, gy>>
get_grid_range(rng, c) ==
    <<get_grid_pos(rng, get_llc(c)), get_grid_pos(rng, get_urc(c))>>

\* the cell indices gy*grid_sz + gx visited by the y/x loops over a grid range
range_cells(ixr) ==
    {y * grid_sz + x : x \in ixr[1][1] .. ixr[2][1], y \in ixr[1][2] .. ixr[2][2]}

\* vector<grid_elem_t> grid, stored as the cells written so far (cells) and
\* the value every other cell of the vector holds (dflt); size is 0 after
\* clear() and grid_sz*grid_sz after the resize of line 273
ClearedGrid == [size |-> 0, dflt |-> EmptyGridElem, cells |-> <<>>]
ResizedGrid == [size |-> grid_sz * grid_sz, dflt |-> EmptyGridElem, cells |-> <<>>]

\* get_grid_elem(gx, gy) by its index gy*grid_sz + gx
get_grid_elem(g, k) == IF k \in DOMAIN g.cells THEN g.cells[k] ELSE g.dflt

\* add_to_grid with `<` for `<=` in both loops
add_to_grid_excl(g, rng, c, bix) ==
    LET ixr   == get_grid_range(rng, c)
        cells == {y * grid_sz + x : x \in ixr[1][1] .. (ixr[2][1] - 1),
                                    y \in ixr[1][2] .. (ixr[2][2] - 1)}
    IN  [g EXCEPT !.cells =
            [k \in (DOMAIN g.cells) \cup cells |->
                IF k \in cells THEN grid_elem_add(get_grid_elem(g, k), c, bix)
                ELSE g.cells[k]]]

\* add_to_grid
add_to_grid(g, rng, c, bix) ==
    LET cells == range_cells(get_grid_range(rng, c))
    IN  [g EXCEPT !.cells =
            [k \in (DOMAIN g.cells) \cup cells |->
                IF k \in cells THEN grid_elem_add(get_grid_elem(g, k), c, bix)
                ELSE g.cells[k]]]

----------------------------------------------------------------------------
(* External services consumed by gen() *)

\* rand_gen_t::rand_uniform(lo, hi): any of RandSteps+1 evenly spaced points
rand_uniform(lo, hi) == {lo + (k * (hi - lo)) \div RandSteps : k \in 0..RandSteps}

Terrains == {"flat", "slope", "ridge"}

\* get_exact_zval(x, y): terrain height, deterministic per terrain state
get_exact_zval(terrain, x, y) ==
    CASE terrain = "flat"  -> 0
      [] terrain = "slope" -> x \div 4
      [] terrain = "ridge" -> 6 - (IF x >= 20 THEN x - 20 ELSE 20 - x)

\* dist_xy_less_than(center, place_center, place_radius) with place_center the
\* centre of rng; both sides times four, the centre being a half-integer
dist_xy_less_than_center(c, rng, r) ==
    LET dx == 2 * c[1] - (rng[1][1] + rng[1][2])
        dy == 2 * c[2] - (rng[2][1] + rng[2][2])
    IN  dx * dx + dy * dy < 4 * r * r

----------------------------------------------------------------------------
(* building_creator_t::gen *)

\* for (n = 0; n < 10; ++n): tries to find a non-overlapping placement
NumPlaceTries == 10

\* the m loop (10 position samples): its outcomes <<keep, center>>.  It ends
\* with keep = 1 at the first sample inside the placement radius, and with
\* keep = 0 only when every sample fell outside it.
placement_samples(rng, pr) ==
    LET pts == {<<x, y>> : x \in rand_uniform(rng[1][1], rng[1][2]),
                           y \in rand_uniform(rng[2][1], rng[2][2])}
        ok(c) == pr = 0 \/ dist_xy_less_than_center(c, rng, pr)
    IN  {[keep |-> ok(c), center |-> c] : c \in pts}

\* b.bcube of lines 293-297: XY centred on center, Z upward from the ground
placed_bcube(center, cz, sz) ==
    <<<<center[1] - sz[1], center[1] + sz[1]>>,
      <<center[2] - sz[2], center[2] + sz[2]>>,
      <<cz, cz + sz[3]>>>>

\* the grid cells whose ixs the overlap test of a candidate walks
overlap_query_cells(rng, c) == range_cells(get_grid_range(rng, c))

\* check_overlaps with the walk cut down to the cell of the lower left corner
check_overlaps_llc_cell(g, blds, rng, c) ==
    LET test_bc == expand_by_tenth(c)
        lo      == get_grid_pos(rng, get_llc(c))
    IN  \E k \in {lo[2] * grid_sz + lo[1]} \cap DOMAIN g.cells :
            LET ge == get_grid_elem(g, k)
            IN  /\ intersects_xy(test_bc, times_ten(ge.bcube))
                /\ \E j \in 1..Len(ge.ixs) :
                       intersects_xy(test_bc, times_ten(blds[ge.ixs[j] + 1].bcube))

\* lines 303-319: does the candidate, expanded by 10%, hit a listed building
\* (a cell never written lists no building)
check_overlaps(g, blds, rng, c) ==
    LET test_bc == expand_by_tenth(c)
    IN  \E k \in overlap_query_cells(rng, c) \cap DOMAIN g.cells :
            LET ge == get_grid_elem(g, k)
            IN  /\ intersects_xy(test_bc, times_ten(ge.bcube))
                /\ \E j \in 1..Len(ge.ixs) :
                       intersects_xy(test_bc, times_ten(blds[ge.ixs[j] + 1].bcube))

\* terrain conformance, drop-to-ground branch (lines 343-352): the new zmin
conform_zmin(c, e) ==
    LET zv(d) == get_exact_zval(e.terrain, c[1][(d % 2) + 1] + e.xlate[1],
                                           c[2][(d \div 2) + 1] + e.xlate[2])
        lo == Min(Min(Min(c[3][1], zv(0)), Min(zv(1), zv(2))), zv(3))
    IN  Max(lo, e.water)

conform_num_below(c, e) ==
    Cardinality({d \in 0..3 :
        get_exact_zval(e.terrain, c[1][(d % 2) + 1] + e.xlate[1],
                                  c[2][(d \div 2) + 1] + e.xlate[2]) < e.water})

\* lines 353-354: more than 2 corners underwater, or too steep a slope
conform_skip(c, e, p) ==
    \/ conform_num_below(c, e) > 2
    \/ (p.max_delta_z > 0 /\ (c[3][1] - conform_zmin(c, e)) > p.max_delta_z)

\* the building_params_t values gen() is called with
PosRange == <<<<0, RangeMax>>, <<0, RangeMax>>, <<0, 0>>>>

BaseParams ==
    [num |-> 1, place_radius |-> 0, pos_range |-> PosRange,
     sz_range |-> <<<<20, 20>>, <<2, 2>>, <<6, 6>>>>,
     flatten_mesh |-> FALSE, max_delta_z |-> 0]

FlatEnv == [water |-> -1, terrain |-> "flat", tiled |-> FALSE, xlate |-> <<0, 0>>]

\* what gen() is called with and what it reads from the world:
\* get_water_z_height(), the terrain behind get_exact_zval(),
\* using_tiled_terrain_hmap_tex(), and the xoff2/yoff2 translate (zero unless
\* world_mode == WMODE_INF_TERRAIN)
GenCalls ==
    {<<[BaseParams EXCEPT !.num = n], FlatEnv>> : n \in 1..2}
    \cup {<<[BaseParams EXCEPT !.flatten_mesh = TRUE], [FlatEnv EXCEPT !.tiled = t]>> :
             t \in BOOLEAN}
    \cup {<<[BaseParams EXCEPT !.num = MaxNum, !.place_radius = 12], FlatEnv>>,
          <<[BaseParams EXCEPT !.num = 2, !.sz_range[1] = <<18, 20>>], FlatEnv>>,
          <<[BaseParams EXCEPT !.num = 2], [FlatEnv EXCEPT !.xlate = <<-2, 0>>]>>,
          <<[BaseParams EXCEPT !.num = 2], [FlatEnv EXCEPT !.terrain = "slope", !.water = 3]>>,
          <<[BaseParams EXCEPT !.num = 2, !.flatten_mesh = TRUE], [FlatEnv EXCEPT !.tiled = TRUE]>>,
          <<[BaseParams EXCEPT !.num = 2, !.flatten_mesh = TRUE],
            [FlatEnv EXCEPT !.terrain = "ridge", !.water = 0]>>}
    \cup {<<[BaseParams EXCEPT !.num = 2, !.flatten_mesh = TRUE, !.max_delta_z = m],
            [FlatEnv EXCEPT !.terrain = "slope", !.water = 3]>> : m \in {0, 2}}

NoRet == [op |-> "none"]

\* after the constructor (line 259): no buildings, no grid
BuildingInit ==
    /\ place_radius = 0
    /\ range = ZeroCube
    /\ buildings = <<>>
    /\ grid = ClearedGrid
    /\ params = BaseParams
    /\ env = FlatEnv
    /\ pc = "idle"
    /\ gi = 0
    /\ gn = 0
    /\ num_skip = 0
    /\ wpc = <<>>
    /\ wtmp = <<>>
    /\ hmap_flat = {}
    /\ ret = NoRet

\* lines 264-277: gen() up to the placement loop.  gen() overwrites every field
\* it reads, so a second run reaches nothing new with other arguments: after a
\* first run only the regeneration with the same arguments is enumerated.
gen_begin(p, e) ==
    /\ pc \in {"idle", "done"}
    /\ pc = "done" => (p = params /\ e = env)
    /\ params' = p
    /\ env' = e
    /\ range' = [d \in 1..3 |->
                   IF d = 3 THEN p.pos_range[d]
                   ELSE <<p.pos_range[d][1] - e.xlate[d], p.pos_range[d][2] - e.xlate[d]>>]
    /\ place_radius' = p.place_radius
    /\ buildings' = <<>>
    /\ grid' = ResizedGrid
    /\ num_skip' = 0
    /\ gi' = 0
    /\ gn' = 0
    /\ pc' = IF p.num = 0 THEN "placed" ELSE "place"
    /\ wpc' = <<>>
    /\ wtmp' = <<>>
    /\ hmap_flat' = {}
    /\ ret' = NoRet

\* how the n and i loops move on: `break` (or the last try) ends the building
next_try(brk) ==
    /\ gn' = IF brk \/ gn + 1 = NumPlaceTries THEN 0 ELSE gn + 1
    /\ gi' = IF brk \/ gn + 1 = NumPlaceTries THEN gi + 1 ELSE gi
    /\ pc' = IF gi' = params.num THEN "placed" ELSE "place"

\* line 299 with the comparison turned round
underwater_break_above(cz, water) == cz > water

\* line 299: `break` on an underwater ground point
underwater_break(cz, water) == cz < water

\* lines 287-326: one iteration of the n loop for building gi, with s the
\* outcome of the m loop and sx, sy, sz the three size draws
gen_try(s, sx, sy, sz) ==
    LET cz == get_exact_zval(env.terrain, s.center[1] + env.xlate[1],
                                          s.center[2] + env.xlate[2])
        bc == placed_bcube(s.center, cz, <<sx, sy, sz>>)
    IN  IF ~s.keep
        THEN next_try(FALSE) /\ UNCHANGED <<buildings, grid>>
        ELSE IF underwater_break(cz, env.water)
        THEN next_try(TRUE) /\ UNCHANGED <<buildings, grid>>
        ELSE IF check_overlaps(grid, buildings, range, bc)
        THEN next_try(FALSE) /\ UNCHANGED <<buildings, grid>>
        ELSE /\ grid' = add_to_grid(grid, range, bc, Len(buildings))
             /\ buildings' = Append(buildings, [bcube |-> bc])
             /\ next_try(TRUE)

\* what rgen can yield in one iteration of the n loop
gen_draws ==
    placement_samples(range, place_radius)
    \X rand_uniform(params.sz_range[1][1] \div 2, params.sz_range[1][2] \div 2)
    \X rand_uniform(params.sz_range[2][1] \div 2, params.sz_range[2][2] \div 2)
    \X rand_uniform(params.sz_range[3][1] \div 2, params.sz_range[3][2] \div 2)

\* lines 283-327: one iteration of the n loop, whatever rgen yields
gen_attempt ==
    /\ pc = "place"
    /\ \E d \in gen_draws : gen_try(d[1], d[2], d[3], d[4])
    /\ UNCHANGED <<place_radius, range, params, env, num_skip, wpc, wtmp, hmap_flat, ret>>

\* lines 331-336: enter the terrain conformance pass, one worker per building
gen_placed ==
    /\ pc = "placed"
    /\ IF params.flatten_mesh
       THEN /\ pc' = "conform"
            /\ wpc' = [i \in 1..Len(buildings) |-> "start"]
            /\ wtmp' = [i \in 1..Len(buildings) |-> 0]
       ELSE /\ pc' = "done"
            /\ UNCHANGED <<wpc, wtmp>>
    /\ UNCHANGED <<place_radius, range, buildings, grid, params, env, gi, gn,
                   num_skip, hmap_flat, ret>>

\* line 340: worker w flattens the mesh under its building
conform_flatten(w) ==
    /\ pc = "conform" /\ wpc[w] = "start" /\ env.tiled
    /\ hmap_flat' = hmap_flat \cup {w - 1}
    /\ wpc' = [wpc EXCEPT ![w] = "fin"]
    /\ UNCHANGED <<place_radius, range, buildings, grid, params, env, pc, gi, gn,
                   num_skip, wtmp, ret>>

\* lines 343-356: worker w lowers its building's zmin, or zeroes its box
conform_drop(w) ==
    /\ pc = "conform" /\ wpc[w] = "start" /\ ~env.tiled
    /\ LET c == buildings[w].bcube
       IN  IF conform_skip(c, env, params)
           THEN /\ buildings' = [buildings EXCEPT ![w].bcube = ZeroCube]
                /\ wpc' = [wpc EXCEPT ![w] = "inc_load"]
           ELSE /\ buildings' = [buildings EXCEPT ![w].bcube[3][1] = conform_zmin(c, env)]
                /\ wpc' = [wpc EXCEPT ![w] = "fin"]
    /\ UNCHANGED <<place_radius, range, grid, params, env, pc, gi, gn,
                   num_skip, wtmp, hmap_flat, ret>>

\* line 357, ++num_skip: the load of the shared counter ...
conform_inc_load(w) ==
    /\ pc = "conform" /\ wpc[w] = "inc_load"
    /\ wtmp' = [wtmp EXCEPT ![w] = num_skip]
    /\ wpc' = [wpc EXCEPT ![w] = "inc_store"]
    /\ UNCHANGED <<place_radius, range, buildings, grid, params, env, pc, gi, gn,
                   num_skip, hmap_flat, ret>>

\* ... and the store of the incremented value
conform_inc_store(w) ==
    /\ pc = "conform" /\ wpc[w] = "inc_store"
    /\ num_skip' = wtmp[w] + 1
    /\ wpc' = [wpc EXCEPT ![w] = "fin"]
    /\ UNCHANGED <<place_radius, range, buildings, grid, params, env, pc, gi, gn,
                   wtmp, hmap_flat, ret>>

\* line 362: every cell's bcube gets the conservative zmin
grid_set_zmin(g, z) ==
    [g EXCEPT !.dflt.bcube[3][1] = z,
              !.cells = [k \in DOMAIN g.cells |-> [g.cells[k] EXCEPT !.bcube[3][1] = z]]]

\* lines 361-365: after the parallel loop
gen_end ==
    /\ pc = "conform"
    /\ \A w \in DOMAIN wpc : wpc[w] = "fin"
    /\ grid' = IF env.tiled THEN grid_set_zmin(grid, env.water) ELSE grid
    /\ pc' = "done"
    /\ UNCHANGED <<place_radius, range, buildings, params, env, gi, gn,
                   num_skip, wpc, wtmp, hmap_flat, ret>>

----------------------------------------------------------------------------
(* building_creator_t::check_sphere_coll and draw *)

\* largest n with n*n <= v (sqrt of p2p_dist, rounded down)
\* (binary search; the argument and the midpoint are bound once as values)
RECURSIVE isqrt_search(_, _, _)
isqrt_search(v, lo, hi) ==
    IF lo = hi THEN lo
    ELSE CHOOSE r \in {IF mid * mid <= v THEN isqrt_search(v, mid, hi)
                       ELSE isqrt_search(v, lo, mid - 1) :
                           mid \in {(lo + hi + 1) \div 2}} : TRUE
ISqrt(v) == CHOOSE r \in {isqrt_search(w, 0, Min(w, 46340)) : w \in {v}} : TRUE

p2p_dist_sq(a, b) ==
    (a[1] - b[1]) * (a[1] - b[1]) + (a[2] - b[2]) * (a[2] - b[2])
        + (a[3] - b[3]) * (a[3] - b[3])

p2p_dist(a, b) == ISqrt(p2p_dist_sq(a, b))

\* cube_t::set_from_sphere
set_from_sphere(p, r) == [d \in 1..3 |-> <<p[d] - r, p[d] + r>>]

\* cube_t + vector (xlate has no z component)
cube_plus_xlate(c, xl) ==
    [d \in 1..3 |-> IF d = 3 THEN c[d] ELSE <<c[d][1] + xl[d], c[d][2] + xl[d]>>]

\* sphere_cube_intersect(pos, radius, cube): squared distance from pos to the
\* cube against radius squared
sphere_cube_intersect(pos, r, c) ==
    LET gap(d) == IF pos[d] < c[d][1] THEN c[d][1] - pos[d]
                  ELSE IF pos[d] > c[d][2] THEN pos[d] - c[d][2] ELSE 0
    IN  gap(1) * gap(1) + gap(2) * gap(2) + gap(3) * gap(3) <= r * r

\* the corrected position of the swept sphere_cube_intersect: pos moved out of
\* the face p_last lies beyond, or onto the roof when p_last lies beyond none
sphere_cube_p_int(pos, r, c, p_last) ==
    LET out == {<<d, j>> \in (1..3) \X (1..2) :
                   IF j = 1 THEN p_last[d] + r <= c[d][1] ELSE p_last[d] - r >= c[d][2]}
        f   == IF out = {} THEN <<3, 2>>
               ELSE CHOOSE x \in out : \A y \in out : x[1] * 2 + x[2] <= y[1] * 2 + y[2]
    IN  [pos EXCEPT ![f[1]] = IF f[2] = 1 THEN c[f[1]][1] - r ELSE c[f[1]][2] + r]

\* the query without the test of line 405
coll_skips_never(bc) == FALSE

\* line 405: a zeroed box marks an invalid building, skipped by the query
coll_skips(bc) == is_all_zeros(bc)

\* lines 392-394: the grid cells the query walks
coll_query_cells(rng, pos, r, xl) ==
    range_cells(get_grid_range(rng,
        set_from_sphere(<<pos[1] - xl[1], pos[2] - xl[2], pos[3]>>, r)))

\* lines 397-416: <<cell, position in ixs>> of every building the loops would
\* report, were they not to return at the first (a cell never written lists
\* no building)
coll_hits(g, blds, rng, pos, p_last, r, xl) ==
    LET cells == coll_query_cells(rng, pos, r, xl) \cap DOMAIN g.cells
        dist  == p2p_dist(pos, p_last)
    IN  {<<k, j>> \in UNION {{k} \X (1..Len(get_grid_elem(g, k).ixs)) : k \in cells} :
            LET ge == get_grid_elem(g, k)
                bc == blds[ge.ixs[j] + 1].bcube
            IN  /\ sphere_cube_intersect(pos, r + dist, cube_plus_xlate(ge.bcube, xl))
                /\ ~coll_skips(bc)
                /\ sphere_cube_intersect(pos, r, cube_plus_xlate(bc, xl))}

\* the first of them in loop order: y outer, x inner, then the order of ixs
first_hit(hits) ==
    CHOOSE h \in hits : \A o \in hits : h[1] < o[1] \/ (h[1] = o[1] /\ h[2] <= o[2])

\* the calls made on the finished creator: pos, p_last, radius and the
\* (xoff - xoff2, yoff - yoff2) translate of line 391
CollQueries ==
    {[pos |-> <<10, 0, 0>>,  p_last |-> <<10, 0, 0>>,  radius |-> 10, xlate |-> <<0, 0>>],
     [pos |-> <<20, 0, 7>>,  p_last |-> <<20, 0, 12>>, radius |-> 1,  xlate |-> <<0, 0>>],
     [pos |-> <<31, 10, 3>>, p_last |-> <<31, 10, 3>>, radius |-> 0,  xlate |-> <<0, 0>>],
     [pos |-> <<22, 20, 1>>, p_last |-> <<22, 14, 1>>, radius |-> 2,  xlate |-> <<2, 0>>]}

\* lines 389-418.  The query is const and reads nothing of an earlier call, so
\* it is enumerated from the states no call has returned in yet.
check_sphere_coll(q) ==
    /\ pc \in {"idle", "done"}
    /\ ret = NoRet
    /\ IF buildings = <<>>
       THEN ret' = [op |-> "coll", q |-> q, hit |-> FALSE, pos |-> q.pos, ix |-> -1]
       ELSE LET hits == coll_hits(grid, buildings, range, q.pos, q.p_last, q.radius, q.xlate)
            IN  IF hits = {}
                THEN ret' = [op |-> "coll", q |-> q, hit |-> FALSE, pos |-> q.pos, ix |-> -1]
                ELSE LET h  == first_hit(hits)
                         ix == get_grid_elem(grid, h[1]).ixs[h[2]]
                     IN  ret' = [op |-> "coll", q |-> q, hit |-> TRUE,
                                 pos |-> sphere_cube_p_int(q.pos, q.radius,
                                            cube_plus_xlate(buildings[ix + 1].bcube, q.xlate),
                                            q.p_last),
                                 ix |-> ix]
    /\ UNCHANGED <<place_radius, range, buildings, grid, params, env, pc, gi, gn,
                   num_skip, wpc, wtmp, hmap_flat>>

\* building_t::draw, line 186: nothing is emitted for a zeroed box
draw_skips(bc) == is_all_zeros(bc)

\* lines 368-387 and 184-205: vis are the buildings that pass the distance
\* clipping and the view frustum test of the camera
draw(vis) ==
    /\ pc \in {"idle", "done"}
    /\ ret = NoRet
    /\ IF buildings = <<>>
       THEN ret' = [op |-> "draw", vis |-> vis, drawn |-> {}]
       ELSE ret' = [op |-> "draw", vis |-> vis,
                    drawn |-> {i \in 0..(Len(buildings) - 1) :
                                  ~draw_skips(buildings[i + 1].bcube) /\ i \in vis}]
    /\ UNCHANGED <<place_radius, range, buildings, grid, params, env, pc, gi, gn,
                   num_skip, wpc, wtmp, hmap_flat>>

----------------------------------------------------------------------------
(* light_source_trig: advance_timestep and check_activate *)

\* ticks per second of game time (a constant of the engine headers)
TICKS_PER_SECOND == 40

\* largest inactive_time from which the model still advances a frame
MaxInactive == 60

\* the trigger sets a light is configured with: no trigger at all, or triggers
\* with an auto off and an auto on time in seconds
TriggerSet ==
    {[is_active |-> FALSE, auto_off_time |-> 0, auto_on_time |-> 0]}
    \cup {[is_active |-> TRUE, auto_off_time |-> f, auto_on_time |-> n] :
             f \in 0..2, n \in 0..1}

\* fticks of a frame
FticksSet == {10, 25}

\* what triggers.register_player_pos() answers: 0 none, 1 proximity, 2 action
PlayerModes == 0..3

NoCall == [op |-> "none", mode |-> 0, ret |-> FALSE]

\* light_source constructor (enabled(1), line 38) and a trigger light that has
\* not been activated
TrigInit ==
    /\ enabled = TRUE
    /\ active_time = 0
    /\ inactive_time = 0
    /\ triggers \in TriggerSet
    /\ tlast = NoCall

TrigFrozen ==
    /\ enabled = TRUE
    /\ active_time = 0
    /\ inactive_time = 0
    /\ triggers = [is_active |-> FALSE, auto_off_time |-> 0, auto_on_time |-> 0]
    /\ tlast = NoCall

\* line 270 with `>=` for `>`
advance_enabled_ge(at) == at >= 0

\* line 270 with the light taken as off whatever active_time is
advance_enabled_never(at) == FALSE

\* line 270: enabled = (active_time > 0.0)
advance_enabled(at) == at > 0

\* line 273 without the max
decrease_active_time_unclamped(at, ft) == at - ft

\* line 273: active_time = max(0.0f, (active_time - fticks))
decrease_active_time(at, ft) == Max(0, at - ft)

\* lines 266-278 (the shadow map of line 268 apart)
advance_timestep(ft) ==
    /\ inactive_time <= MaxInactive
    /\ tlast' = [op |-> "advance_timestep", mode |-> 0, ret |-> FALSE]
    /\ IF ~triggers.is_active
       THEN UNCHANGED <<enabled, active_time, inactive_time>>
       ELSE /\ enabled' = advance_enabled(active_time)
            /\ IF enabled'
               THEN /\ active_time' = IF triggers.auto_off_time > 0
                                      THEN decrease_active_time(active_time, ft)
                                      ELSE active_time
                    /\ UNCHANGED inactive_time
               ELSE /\ inactive_time' = IF triggers.auto_on_time > 0
                                        THEN inactive_time + ft ELSE inactive_time
                    /\ UNCHANGED active_time
    /\ UNCHANGED triggers

\* lines 284-286: the trigger_mode bits of a call; 4 = auto on
trigger_mode(trg, it, pm) ==
    IF trg.auto_on_time > 0 /\ it > TICKS_PER_SECOND * trg.auto_on_time
    THEN 4 + (IF trg.is_active THEN pm ELSE 0)
    ELSE (IF trg.is_active THEN pm ELSE 0)

\* lines 289-294 with the toggle of line 291 lost: always on
new_active_time_no_toggle(trg, mode, at) ==
    (IF trg.auto_off_time = 0 THEN 1
     ELSE IF (mode \div 2) % 2 = 1 THEN (IF at = 0 THEN trg.auto_off_time ELSE 0)
     ELSE trg.auto_off_time) * TICKS_PER_SECOND

\* lines 289-294 with the action bit of line 291 setting the auto off time
\* whether the light is off or on
new_active_time_action_sets(trg, mode, at) ==
    (IF trg.auto_off_time = 0 THEN (IF at = 0 THEN 1 ELSE 0)
     ELSE trg.auto_off_time) * TICKS_PER_SECOND

\* lines 289-294: active_time after a call in which a trigger fired
new_active_time(trg, mode, at) ==
    (IF trg.auto_off_time = 0 THEN (IF at = 0 THEN 1 ELSE 0)
     ELSE IF (mode \div 2) % 2 = 1 THEN (IF at = 0 THEN trg.auto_off_time ELSE 0)
     ELSE trg.auto_off_time) * TICKS_PER_SECOND

\* line 287 without the early return
not_triggered_never(mode) == FALSE

\* line 287: if (trigger_mode == 0) return 0
not_triggered(mode) == mode = 0

\* lines 280-296; pm is the answer of triggers.register_player_pos(), ret of
\* tlast the value returned
check_activate(pm) ==
    LET mode == trigger_mode(triggers, inactive_time, pm)
    IN  /\ tlast' = [op |-> "check_activate", mode |-> mode, ret |-> ~not_triggered(mode)]
        /\ inactive_time' = IF mode >= 4 THEN 0 ELSE inactive_time
        /\ active_time' = IF not_triggered(mode) THEN active_time
                          ELSE new_active_time(triggers, mode, active_time)
        /\ UNCHANGED <<enabled, triggers>>

----------------------------------------------------------------------------
(* light_source: constructor, try_merge_into, combine_with, pack_to_floatv *)
(* Colours, directions and beam widths are fixed point: 100 stands for 1.0 *)

\* HALF_DXY, half the sum of the mesh spacings (a global of the engine)
HALF_DXY == 10

\* number of merges and combinations the model follows on one target light
MaxMerges == 2

dot_product(a, b) == a[1] * b[1] + a[2] * b[2] + a[3] * b[3]

\* largest n with n*n*n <= v, for pow(wsum, 1/3)
ICbrt(v) == CHOOSE n \in 0..100 : n * n * n <= v /\ (n + 1) * (n + 1) * (n + 1) > v

\* vector3d::get_norm: the vector scaled to length 1.0, the zero vector as is
get_norm(d) ==
    IF dot_product(d, d) = 0 THEN d
    ELSE [i \in 1..3 |-> (d[i] * 100) \div ISqrt(dot_product(d, d))]

\* the predicates of the light_source class
is_line_light(l)  == l.pos # l.pos2
is_directional(l) == l.bwidth < 100
is_neg_light(l)   == l.color[1] < 0 \/ l.color[2] < 0 \/ l.color[3] < 0

\* lines 37-39: the constructor
light_source(sz, p, p2, c, id, d, bw, ri) ==
    [dynamic |-> id, enabled |-> TRUE, radius |-> sz, r_inner |-> ri, bwidth |-> bw,
     pos |-> p, pos2 |-> p2, dir |-> get_norm(d), color |-> c]

\* lines 41-43: the constructor's assertions
light_source_asserts(l) ==
    /\ l.bwidth > 0 /\ l.bwidth <= 100
    /\ l.r_inner <= l.radius
    /\ ~(is_directional(l) /\ is_line_light(l))

White == <<100, 100, 100, 100>>
Origin == <<0, 0, 0>>
BaseLight == light_source(10, Origin, Origin, White, FALSE, Origin, 100, 0)

\* the lights of the model: the base light with one or two arguments changed
Lights ==
    {l \in
        {light_source(r, <<x, 0, 0>>, <<x, 0, 0>>, White, FALSE, Origin, 100, 0) :
            r \in {0, 10, 20, 30}, x \in 0..3}
        \cup {light_source(10, Origin, <<0, 3, 0>>, c, FALSE, Origin, 100, 0) :
                 c \in {White, <<100, 100, 100, 0>>}}
        \cup {light_source(10, Origin, Origin, White, FALSE, d, 50, 0) :
                 d \in {<<200, 0, 0>>, <<96, 28, 0>>, <<0, 100, 0>>}}
        \cup {light_source(10, Origin, Origin, White, FALSE, Origin, 100, 5),
              light_source(10, Origin, Origin, White, TRUE, Origin, 100, 0),
              light_source(10, Origin, Origin, <<-100, -100, -100, 100>>, FALSE, Origin, 100, 0),
              light_source(10, <<1, 0, 0>>, <<1, 0, 0>>, <<-100, -100, -100, 100>>, FALSE, Origin, 100, 0),
              light_source(10, Origin, Origin, <<100, 50, 0, 0>>, FALSE, Origin, 100, 0)} :
        light_source_asserts(l)}

NoLightCall == [op |-> "none", ret |-> FALSE, data |-> <<>>]

LightInit ==
    /\ src \in Lights
    /\ ls \in Lights
    /\ nmerge = 0
    /\ lret = NoLightCall

LightFrozen ==
    /\ src = BaseLight
    /\ ls = BaseLight
    /\ nmerge = 0
    /\ lret = NoLightCall

\* dist_less_than(pos, ls.pos, 0.2*min(HALF_DXY, radius)), both sides squared and
\* times 25
merge_dist_ok(s, l) ==
    25 * p2p_dist_sq(s.pos, l.pos) < Min(HALF_DXY, s.radius) * Min(HALF_DXY, s.radius)

\* lines 232-237 without the line light test of line 236
try_merge_rejects_no_line(s, l) ==
    \/ l.radius < s.radius
    \/ ~merge_dist_ok(s, l)
    \/ l.bwidth # s.bwidth \/ l.r_inner # s.r_inner \/ l.dynamic # s.dynamic
    \/ (is_directional(s) /\ dot_product(s.dir, l.dir) < 9500)
    \/ is_neg_light(s) # is_neg_light(l)

\* lines 232-237 with `<=` for `<` in line 232
try_merge_rejects_le(s, l) ==
    \/ l.radius <= s.radius
    \/ ~merge_dist_ok(s, l)
    \/ l.bwidth # s.bwidth \/ l.r_inner # s.r_inner \/ l.dynamic # s.dynamic
    \/ (is_directional(s) /\ dot_product(s.dir, l.dir) < 9500)
    \/ is_line_light(s) \/ is_line_light(l)
    \/ is_neg_light(s) # is_neg_light(l)

\* lines 232-237: the conditions under which try_merge_into returns 0
try_merge_rejects(s, l) ==
    \/ l.radius < s.radius
    \/ ~merge_dist_ok(s, l)
    \/ l.bwidth # s.bwidth \/ l.r_inner # s.r_inner \/ l.dynamic # s.dynamic
    \/ (is_directional(s) /\ dot_product(s.dir, l.dir) < 9500)
    \/ is_line_light(s) \/ is_line_light(l)
    \/ is_neg_light(s) # is_neg_light(l)

\* lines 47-51, add_color: color = color*color.alpha + c*c.alpha, alpha = 1
add_color(col, c) ==
    [i \in 1..4 |-> IF i = 4 THEN 100
                    ELSE (col[i] * col[4]) \div 100 + (c[i] * c[4]) \div 100]

\* lines 238-241: ls after an accepted merge; the alpha of the added colour is
\* scaled by the radius ratio squared
try_merge_result(s, l) ==
    LET lcolor == [s.color EXCEPT ![4] = (s.color[4] * s.radius * s.radius)
                                            \div (l.radius * l.radius)]
    IN  [l EXCEPT !.color = add_color(l.color, lcolor)]

\* lines 230-243
try_merge_into ==
    /\ nmerge < MaxMerges
    /\ IF try_merge_rejects(src, ls)
       THEN /\ lret' = [op |-> "try_merge_into", ret |-> FALSE, data |-> <<>>]
            /\ UNCHANGED <<ls, nmerge>>
       ELSE /\ ls' = try_merge_result(src, ls)
            /\ nmerge' = nmerge + 1
            /\ lret' = [op |-> "try_merge_into", ret |-> TRUE, data |-> <<>>]
    /\ UNCHANGED src

\* line 223: radius = pow(wsum, 1/3)
combine_radius(r1, r2) == ICbrt(r1 * r1 * r1 + r2 * r2 * r2)

\* blend_color(color, color, l.color, wa, 1): the weighted average of the two
blend_color(a, b, w1, wsum) ==
    [i \in 1..4 |-> (a[i] * w1 + b[i] * (wsum - w1)) \div wsum]

\* lines 219-228: t.combine_with(l)
combine_with(t, l) ==
    LET w1   == t.radius * t.radius * t.radius
        w2   == l.radius * l.radius * l.radius
        wsum == w1 + w2
    IN  [t EXCEPT !.radius = combine_radius(t.radius, l.radius),
                  !.pos    = [i \in 1..3 |-> (t.pos[i] * w1 + l.pos[i] * w2) \div wsum],
                  !.color  = blend_color(t.color, l.color, w1, wsum)]

\* ls.combine_with(src); line 221 asserts radius > 0
do_combine_with ==
    /\ nmerge < MaxMerges
    /\ ls.radius > 0
    /\ ls' = combine_with(ls, src)
    /\ nmerge' = nmerge + 1
    /\ lret' = [op |-> "combine_with", ret |-> TRUE, data |-> <<>>]
    /\ UNCHANGED src

\* pack_to_floatv that stores bwidth for a line light too
pack_to_floatv_no_sentinel(l) ==
    <<l.pos[1], l.pos[2], l.pos[3], l.radius,
      (100 + l.color[1]) \div 2, (100 + l.color[2]) \div 2, (100 + l.color[3]) \div 2,
      l.color[4]>>
    \o (IF is_line_light(l)
        THEN <<l.pos2[1], l.pos2[2], l.pos2[3], l.bwidth>>
        ELSE <<(100 + l.dir[1]) \div 2, (100 + l.dir[2]) \div 2, (100 + l.dir[3]) \div 2,
               l.bwidth>>)

\* pack_to_floatv that stores the direction as it is, not remapped
pack_to_floatv_raw_dir(l) ==
    <<l.pos[1], l.pos[2], l.pos[3], l.radius,
      (100 + l.color[1]) \div 2, (100 + l.color[2]) \div 2, (100 + l.color[3]) \div 2,
      l.color[4]>>
    \o (IF is_line_light(l)
        THEN <<l.pos2[1], l.pos2[2], l.pos2[3], 0>>
        ELSE <<l.dir[1], l.dir[2], l.dir[3], l.bwidth>>)

\* lines 245-264: the floats written to data, in order
pack_to_floatv(l) ==
    <<l.pos[1], l.pos[2], l.pos[3], l.radius,
      (100 + l.color[1]) \div 2, (100 + l.color[2]) \div 2, (100 + l.color[3]) \div 2,
      l.color[4]>>
    \o (IF is_line_light(l)
        THEN <<l.pos2[1], l.pos2[2], l.pos2[3], 0>>
        ELSE <<(100 + l.dir[1]) \div 2, (100 + l.dir[2]) \div 2, (100 + l.dir[3]) \div 2,
               l.bwidth>>)

\* src.pack_to_floatv(data)
do_pack_to_floatv ==
    /\ lret' = [op |-> "pack_to_floatv", ret |-> TRUE, data |-> pack_to_floatv(src)]
    /\ UNCHANGED <<src, ls, nmerge>>

\* the result of get_intensity_at is in 1/100, as color.alpha; the square root
\* is taken with this many steps per unit
SqrtSteps == 4

\* the line light projection without CLIP_TO_01
no_clip(v, m) == v

\* CLIP_TO_01(v/m) times m, m > 0
clip_to_01(v, m) == Max(0, Min(v, m))

\* lines 56-67: get_intensity_at(p, updated_lpos).  For a line light the
\* lengths are times m = L.mag_sq(), so that the projected position is whole
get_intensity_at(l, p) ==
    IF l.radius = 0 THEN l.color[4]
    ELSE
        LET L  == [i \in 1..3 |-> l.pos2[i] - l.pos[i]]
            m  == IF is_line_light(l) THEN dot_product(L, L) ELSE 1
            pp == [i \in 1..3 |-> p[i] - l.pos[i]]
            t  == IF is_line_light(l) THEN clip_to_01(dot_product(pp, L), m) ELSE 0
            updated_lpos == [i \in 1..3 |-> m * l.pos[i] + L[i] * t]
            mp == [i \in 1..3 |-> m * p[i]]
            dz == mp[3] - updated_lpos[3]
            dist_sq == p2p_dist_sq(updated_lpos, mp)
            rm == l.radius * m
        IN  IF (IF dz < 0 THEN 0 - dz ELSE dz) > rm THEN 0
            ELSE IF dist_sq > rm * rm THEN 0
            ELSE LET num == rm * SqrtSteps - ISqrt(dist_sq * SqrtSteps * SqrtSteps)
                     den == rm * SqrtSteps
                 IN  (num * num * l.color[4]) \div (den * den)

\* the points get_intensity_at is asked about: on, inside and outside the
\* spheres of the lights, beyond both ends of the line lights, above and below
IntensityPoints ==
    {<<0, 0, 0>>, <<1, 0, 0>>, <<3, 0, 0>>, <<6, 8, 0>>, <<7, 8, 0>>, <<10, 0, 0>>,
     <<11, 0, 0>>, <<0, 2, 0>>, <<0, 12, 0>>, <<0, 14, 0>>, <<0, -9, 0>>, <<0, -11, 0>>,
     <<0, 0, 11>>, <<2, 1, 5>>, <<0, 1, -10>>, <<31, 0, 0>>}

\* ls.get_intensity_at(p, updated_lpos)
do_get_intensity_at ==
    /\ \E p \in IntensityPoints :
          lret' = [op |-> "get_intensity_at", ret |-> TRUE,
                   data |-> <<p, get_intensity_at(ls, p)>>]
    /\ UNCHANGED <<src, ls, nmerge>>

----------------------------------------------------------------------------
(* light_source::is_visible and get_dir_intensity (light_source.cpp:71-216) *)
(* Lengths of the lights of this part are in hundredths of a world unit, so *)
(* that the thresholds 0.5 and 0.65 are 50 and 65.                          *)

\* unsigned const num_rays = 100
num_rays == 100

\* the direction pool is followed up to this many entries
MaxDirs == 230

\* 200 * LT_DIR_FALLOFF: (bwidth + LT_DIR_FALLOFF) < 0.5 is
\* 2*bwidth + LT_DIR_FALLOFF2 < 100
LT_DIR_FALLOFF2 == 1

\* 100 * SQRT_CTHRESH
SQRT_CTHRESH == 16

vec_neg(v) == [i \in 1..3 |-> 0 - v[i]]
vec_add(a, b) == [i \in 1..3 |-> a[i] + b[i]]
\* v times the fixed point factor f
vec_scale(v, f) == [i \in 1..3 |-> (v[i] * f) \div 100]
cross_product(a, b) ==
    <<a[2] * b[3] - a[3] * b[2], a[3] * b[1] - a[1] * b[3], a[1] * b[2] - a[2] * b[1]>>

\* beam narrower than a hemisphere
is_very_directional(l) == 2 * l.bwidth + LT_DIR_FALLOFF2 < 100

\* lines 71-78: dp_norm = 0.5*(1 - cos), the result is
\* CLIP_TO_01(2*(dp_norm + bwidth + LT_DIR_FALLOFF - 1)/LT_DIR_FALLOFF)
get_dir_intensity(l, obj_dir) ==
    IF ~is_directional(l) THEN 100
    ELSE LET dp  == dot_product(obj_dir, l.dir)
             cos == dp \div ISqrt(dot_product(obj_dir, obj_dir))
             v   == (200 * (2 * l.bwidth + LT_DIR_FALLOFF2 - 100 - cos)) \div LT_DIR_FALLOFF2
         IN  IF dp >= 0 /\ 2 * l.bwidth + LT_DIR_FALLOFF2 < 100 THEN 0
             ELSE Max(0, Min(100, v))

\* lines 116-119: radius*sqrt(1/(d*d) - 1) with d = 1 - 2*(bwidth + LT_DIR_FALLOFF)
calc_cylin_end_radius(l) ==
    LET d == 100 - 2 * l.bwidth - LT_DIR_FALLOFF2
    IN  (l.radius * ISqrt(10000 - d * d)) \div d

\* get_ortho_vectors(dir, vortho): two vectors orthogonal to v and each other
get_ortho_vectors(v) ==
    LET a == IF v[1] = 0 /\ v[2] = 0 THEN <<0, v[3], 0>> ELSE <<0 - v[2], v[1], 0>>
    IN  <<get_norm(a), get_norm(cross_product(v, a))>>

\* SINF and COSF of TWO_PI*n/(num_rays/4)
SINF25 == <<0, 25, 48, 68, 84, 95, 100, 98, 90, 77, 59, 37, 13, -13, -37, -59, -77,
            -90, -98, -100, -95, -84, -68, -48, -25>>
COSF25 == <<100, 97, 88, 73, 54, 31, 6, -19, -43, -64, -81, -93, -99, -99, -93, -81,
            -64, -43, -19, 6, 31, 54, 73, 88, 97>>

\* lines 177-178: ray n around the perimeter of the beam's cylinder,
\* radius*dir + cylin_end_radius*(SINF(theta)*vortho[0] + COSF(theta)*vortho[1])
perimeter_ray(l, n) ==
    LET vortho == get_ortho_vectors(l.dir)
        cer    == calc_cylin_end_radius(l)
    IN  [i \in 1..3 |->
            (l.dir[i] * l.radius) \div 100
            + (cer * ((vortho[1][i] * SINF25[n + 1] + vortho[2][i] * COSF25[n + 1]) \div 100))
                  \div 100]

\* lines 162-170: the 26 directions the pool starts with, in loop order
uniform_dir(i) ==
    LET j == IF i < 13 THEN i ELSE i + 1
    IN  get_norm(<<100 * ((j \div 9) - 1), 100 * (((j \div 3) % 3) - 1), 100 * ((j % 3) - 1)>>)

\* rgen.signed_rand_vector_norm(): draw i of the function's static generator,
\* which is never re-seeded
signed_rand_vector_norm(i) ==
    <<<<100, 0, 0>>, <<0, 60, -80>>, <<0, -100, 0>>, <<-60, 0, 80>>,
      <<0, 0, -100>>, <<-80, -60, 0>>, <<60, 80, 0>>>>[(i % 7) + 1]

\* dirs[i], once it has been pushed
dirs_at(i) == IF i < 26 THEN uniform_dir(i) ELSE signed_rand_vector_norm(i - 26)

\* the lights is_visible is called on
VisBase == light_source(200, Origin, Origin, White, FALSE, Origin, 100, 0)
VisLights ==
    {VisBase,
     [VisBase EXCEPT !.enabled = FALSE],
     light_source(0, Origin, Origin, White, FALSE, Origin, 100, 0),
     [light_source(0, Origin, Origin, White, FALSE, Origin, 100, 0) EXCEPT !.enabled = FALSE],
     light_source(40, Origin, Origin, White, FALSE, Origin, 100, 0),
     light_source(60, Origin, Origin, White, FALSE, Origin, 100, 0),
     light_source(200, Origin, Origin, White, TRUE, Origin, 100, 0),
     light_source(200, Origin, <<99, 0, 0>>, White, FALSE, Origin, 100, 0),
     light_source(200, Origin, Origin, White, FALSE, <<0, 100, 0>>, 100, 0),
     light_source(200, Origin, Origin, White, FALSE, <<100, 0, 0>>, 50, 0),
     light_source(200, Origin, Origin, White, FALSE, <<100, 0, 0>>, 20, 0),
     light_source(200, Origin, Origin, White, FALSE, Origin, 20, 0)}

\* what the services answer during one call: the frustum tests on the light
\* (camera_pdu), sphere_cobj_occluded, display_mode & 0x08, the line from the
\* light centre to the camera, what the sample rays hit (nothing, a truly
\* static cobj, or one that is not), and the sample whose end the camera sees
ClosedWorld ==
    [frustum |-> TRUE, occluded |-> FALSE, occ_mode |-> TRUE, center_hit |-> TRUE,
     hit |-> "static", window |-> -1]
VisWorlds ==
    {[ClosedWorld EXCEPT !.hit = h] : h \in {"none", "static", "dynamic"}}
    \cup {[ClosedWorld EXCEPT !.frustum = FALSE],
          [ClosedWorld EXCEPT !.occluded = TRUE],
          [ClosedWorld EXCEPT !.occ_mode = FALSE],
          [ClosedWorld EXCEPT !.center_hit = FALSE],
          [ClosedWorld EXCEPT !.window = 30],
          [ClosedWorld EXCEPT !.hit = "dynamic", !.window = 2]}

\* check_coll_line_exact_tree(start_pos, end_pos, cpos, cnorm, cindex, ...):
\* the cobj hit (-1 for none) and the point of the hit
exact_tree_cindex(w) == CASE w.hit = "none" -> -1 [] w.hit = "static" -> 0 [] OTHER -> 1
exact_tree_cpos(w, key) ==
    IF w.hit = "none" THEN key[2]
    ELSE [i \in 1..3 |-> (key[1][i] + key[2][i]) \div 2]

\* coll_objects[cindex].truly_static()
truly_static(cindex) == cindex = 0

NoVisRet == [op |-> "none", ret |-> FALSE]

VisInit ==
    /\ vl \in VisLights
    /\ world = ClosedWorld
    /\ vpc = "idle"
    /\ vn = 0
    /\ cur_dir = 0
    /\ ndirs = 0
    /\ ray_dir = Origin
    /\ ray_map = <<>>
    /\ prev_cindex = -1
    /\ vret = NoVisRet

VisFrozen ==
    /\ vl = VisBase
    /\ world = ClosedWorld
    /\ vpc = "idle"
    /\ vn = 0
    /\ cur_dir = 0
    /\ ndirs = 0
    /\ ray_dir = Origin
    /\ ray_map = <<>>
    /\ prev_cindex = -1
    /\ vret = NoVisRet

\* lines 131-155 with the tests of lines 131 and 132 in the other order
is_visible_early_radius_first(l, w) ==
    IF l.radius = 0 THEN "true"
    ELSE IF ~l.enabled THEN "false"
    ELSE IF ~w.frustum THEN "false"
    ELSE IF ~is_line_light(l) /\ l.radius < 50 THEN "true"
    ELSE IF ~is_line_light(l) /\ w.occluded THEN "false"
    ELSE IF l.dynamic \/ l.radius < 65 \/ ~w.occ_mode THEN "true"
    ELSE IF ~w.center_hit THEN "true"
    ELSE "rays"

\* lines 131-155: what is_visible returns before the ray loop, or "rays" when
\* it enters the loop
is_visible_early(l, w) ==
    IF ~l.enabled THEN "false"
    ELSE IF l.radius = 0 THEN "true"
    ELSE IF ~w.frustum THEN "false"
    ELSE IF ~is_line_light(l) /\ l.radius < 50 THEN "true"
    ELSE IF ~is_line_light(l) /\ w.occluded THEN "false"
    ELSE IF l.dynamic \/ l.radius < 65 \/ ~w.occ_mode THEN "true"
    ELSE IF ~w.center_hit THEN "true"
    ELSE "rays"

\* lines 129-171: a call of vl.is_visible() in the world w, up to the ray loop
is_visible_begin(w) ==
    /\ vpc = "idle"
    /\ world' = w
    /\ LET r == is_visible_early(vl, w)
       IN  IF r = "rays"
           THEN /\ vpc' = "ray"
                /\ ndirs' = IF ndirs = 0 THEN 26 ELSE ndirs
                /\ prev_cindex' = 0
                /\ vret' = NoVisRet
           ELSE /\ vpc' = "idle"
                /\ vret' = [op |-> "is_visible", ret |-> (r = "true")]
                /\ UNCHANGED <<ndirs, prev_cindex>>
    /\ vn' = 0
    /\ cur_dir' = 0
    /\ ray_dir' = Origin
    /\ UNCHANGED <<vl, ray_map>>

\* lines 176-179: a ray on the perimeter of a narrow beam
vis_pick_perimeter ==
    /\ vpc = "ray"
    /\ is_very_directional(vl) /\ vn < num_rays \div 4
    /\ ray_dir' = perimeter_ray(vl, vn)
    /\ vpc' = "cast"
    /\ UNCHANGED <<vl, world, vn, cur_dir, ndirs, ray_map, prev_cindex, vret>>

\* lines 181-186: one turn of the while (1) loop of a directional light
vis_pick_directional ==
    /\ vpc = "ray"
    /\ ~(is_very_directional(vl) /\ vn < num_rays \div 4) /\ is_directional(vl)
    /\ cur_dir < MaxDirs
    /\ ndirs' = Max(ndirs, cur_dir + 1)
    /\ cur_dir' = cur_dir + 1
    /\ LET d == dirs_at(cur_dir)
           r == IF 2 * vl.bwidth + LT_DIR_FALLOFF2 < 100 /\ dot_product(d, vl.dir) < 0
                THEN vec_neg(d) ELSE d
       IN  /\ ray_dir' = r
           /\ vpc' = IF get_dir_intensity(vl, vec_neg(r)) > 0 THEN "cast" ELSE "ray"
    /\ UNCHANGED <<vl, world, vn, ray_map, prev_cindex, vret>>

\* lines 188-192: the next direction of the pool, for a light without a beam
vis_pick_sphere ==
    /\ vpc = "ray"
    /\ ~(is_very_directional(vl) /\ vn < num_rays \div 4) /\ ~is_directional(vl)
    /\ cur_dir < MaxDirs
    /\ ndirs' = Max(ndirs, cur_dir + 1)
    /\ cur_dir' = cur_dir + 1
    /\ LET d == dirs_at(cur_dir)
       IN  ray_dir' = IF cur_dir + 1 > 26 /\ vl.dir # Origin /\ dot_product(vl.dir, d) < 0
                      THEN vec_neg(d) ELSE d
    /\ vpc' = "cast"
    /\ UNCHANGED <<vl, world, vn, ray_map, prev_cindex, vret>>

\* lines 193-195: the cache key of ray n, <<start_pos, end_pos>>
ray_key(l, n, rd) ==
    LET start_pos == IF is_line_light(l)
                     THEN [i \in 1..3 |-> l.pos[i] + (n * (l.pos2[i] - l.pos[i])) \div (num_rays - 1)]
                     ELSE l.pos
        radius_adj == (l.radius * (100 - SQRT_CTHRESH)) \div 100
    IN  <<start_pos, vec_add(start_pos, vec_scale(rd, radius_adj))>>

\* line 205 without its condition: every result is stored
ray_map_stores_always(cindex) == TRUE

\* line 205: the result is stored when the ray hit nothing or a truly static cobj
ray_map_stores(cindex) == cindex < 0 \/ truly_static(cindex)

\* lines 196-206: the cache after the lookup of key; an entry holds cpos, and
\* with it the cobj index of the query that computed it
ray_map_after(m, key, w) ==
    IF key \in DOMAIN m THEN m
    ELSE IF ray_map_stores(exact_tree_cindex(w))
    THEN [k \in DOMAIN m \cup {key} |->
             IF k = key THEN [cpos |-> exact_tree_cpos(w, key), cindex |-> exact_tree_cindex(w)]
             ELSE m[k]]
    ELSE m

\* lines 193-211: ray n is looked up or cast, and its end tested from the camera
vis_cast ==
    /\ vpc = "cast"
    /\ LET key == ray_key(vl, vn, ray_dir)
           cindex == IF key \in DOMAIN ray_map THEN -1 ELSE exact_tree_cindex(world)
       IN  /\ ray_map' = ray_map_after(ray_map, key, world)
           /\ IF world.window = vn
              THEN /\ vpc' = "idle"
                   /\ vret' = [op |-> "is_visible", ret |-> TRUE]
                   /\ UNCHANGED <<vn, prev_cindex>>
              ELSE /\ prev_cindex' = cindex
                   /\ vn' = vn + 1
                   /\ IF vn + 1 = num_rays
                      THEN /\ vpc' = "idle"
                           /\ vret' = [op |-> "is_visible", ret |-> FALSE]
                      ELSE /\ vpc' = "ray"
                           /\ vret' = vret
    /\ UNCHANGED <<vl, world, cur_dir, ndirs, ray_dir>>

----------------------------------------------------------------------------
(* gen() with rgen made explicit: rgen.set_state(rand_gen_index, 123) selects *)
(* a stream, the same whenever the epoch counter is the same                  *)

\* iterations of the n loop the stream is followed for
MaxDraws == 3

NoRun == [run |-> FALSE]

RgenFrozen ==
    /\ tape = <<>>
    /\ tpos = 0
    /\ prev = NoRun

\* gen() without line 276: the generator goes on where it was
set_state_keep(tp) == tp

\* line 276, rgen.set_state(rand_gen_index, 123): back to the start of the stream
set_state(tp) == 0

\* the calls of gen() whose runs are compared
RgenCalls ==
    {<<[BaseParams EXCEPT !.num = n, !.pos_range[2] = <<0, 1>>], FlatEnv>> : n \in 1..2}
    \cup
    {<<[BaseParams EXCEPT !.num = 2, !.pos_range[2] = <<0, 1>>, !.flatten_mesh = TRUE],
       [FlatEnv EXCEPT !.tiled = TRUE]>>,
     <<[BaseParams EXCEPT !.num = 2, !.pos_range[2] = <<0, 1>>, !.flatten_mesh = TRUE],
       [FlatEnv EXCEPT !.terrain = "ridge", !.water = 0]>>}

\* gen() is entered; what the run before it left is kept for comparison
rgen_gen_begin(p, e) ==
    /\ gen_begin(p, e)
    /\ tpos' = set_state(tpos)
    /\ prev' = IF pc = "done" THEN [run |-> TRUE, buildings |-> buildings, grid |-> grid]
               ELSE prev
    /\ UNCHANGED tape

\* one iteration of the n loop: the draws are those of the stream, which is
\* extended when the run is the first to get this far
rgen_gen_attempt ==
    /\ pc = "place"
    /\ tpos < MaxDraws
    /\ \E d \in gen_draws :
          /\ tpos < Len(tape) => d = tape[tpos + 1]
          /\ gen_try(d[1], d[2], d[3], d[4])
          /\ tape' = IF tpos < Len(tape) THEN tape ELSE Append(tape, d)
    /\ tpos' = tpos + 1
    /\ UNCHANGED <<place_radius, range, params, env, num_skip, wpc, wtmp, hmap_flat, ret,
                   prev>>

----------------------------------------------------------------------------
(* bind_point_t::is_valid (light_source.cpp:17-30) and the shadow map of a   *)
(* light_source_trig (light_source.cpp:268, 298-311, 325-327)                *)

\* coll_objects near the binding point, by id: is the status COLL_STATIC, and
\* does the object contain bind_pos.  Nothing, a static container, the same
\* object no longer static, the same object moved away, the id reused by an
\* object elsewhere while another static object contains the point, two
\* containers
CobjWorlds ==
    {<<[static |-> TRUE,  contains |-> FALSE], [static |-> TRUE,  contains |-> FALSE]>>,
     <<[static |-> TRUE,  contains |-> TRUE],  [static |-> TRUE,  contains |-> FALSE]>>,
     <<[static |-> FALSE, contains |-> TRUE],  [static |-> TRUE,  contains |-> FALSE]>>,
     <<[static |-> TRUE,  contains |-> FALSE], [static |-> TRUE,  contains |-> TRUE]>>,
     <<[static |-> TRUE,  contains |-> TRUE],  [static |-> TRUE,  contains |-> TRUE]>>}

\* the kinds of light check_shadow_map tells apart: a line light, a point
\* light (dir == zero_vector), and a light with a direction
SmapKinds == {"line", "point", "spot"}

NoSmapCall == [op |-> "none", ret |-> FALSE, queried |-> FALSE, after_false |-> FALSE]

\* a placed light after its construction (smap_data(nullptr), line 39); the
\* binding point is unbound, or bound with its cobj not yet looked up
SmapInit ==
    /\ bound \in BOOLEAN
    /\ valid = TRUE
    /\ bind_cobj = -1
    /\ cobjs \in CobjWorlds
    /\ seen_false = FALSE
    /\ skind \in SmapKinds
    /\ smap_data = 0
    /\ smap_heap = <<>>
    /\ smap_ub = "none"
    /\ sret = NoSmapCall

SmapFrozen ==
    /\ bound = FALSE
    /\ valid = TRUE
    /\ bind_cobj = -1
    /\ cobjs = <<[static |-> TRUE, contains |-> FALSE], [static |-> TRUE, contains |-> FALSE]>>
    /\ seen_false = FALSE
    /\ skind = "spot"
    /\ smap_data = 0
    /\ smap_heap = <<>>
    /\ smap_ub = "none"
    /\ sret = NoSmapCall

\* is_valid without the test of line 20
already_invalid_never(v) == FALSE

\* line 20: already determined to be invalid
already_invalid(v) == ~v

\* check_point_contained_tree(bind_pos, bind_cobj, 0): the static objects that
\* contain the point, one of which becomes bind_cobj
containing_cobjs(w) == {i \in 1..Len(w) : w[i].static /\ w[i].contains}

\* lines 17-30; ids are those of coll_objects plus one
is_valid ==
    /\ IF ~bound
       THEN /\ sret' = [op |-> "is_valid", ret |-> TRUE, queried |-> FALSE,
                        after_false |-> seen_false]
            /\ UNCHANGED <<valid, bind_cobj>>
       ELSE IF already_invalid(valid)
       THEN /\ sret' = [op |-> "is_valid", ret |-> FALSE, queried |-> FALSE,
                        after_false |-> seen_false]
            /\ UNCHANGED <<valid, bind_cobj>>
       ELSE IF bind_cobj < 0
       THEN IF containing_cobjs(cobjs) = {}
            THEN /\ valid' = FALSE
                 /\ sret' = [op |-> "is_valid", ret |-> FALSE, queried |-> TRUE,
                             after_false |-> seen_false]
                 /\ UNCHANGED bind_cobj
            ELSE /\ bind_cobj' \in containing_cobjs(cobjs)
                 /\ sret' = [op |-> "is_valid", ret |-> TRUE, queried |-> TRUE,
                             after_false |-> seen_false]
                 /\ UNCHANGED valid
       ELSE /\ valid' = (cobjs[bind_cobj].static /\ cobjs[bind_cobj].contains)
            /\ sret' = [op |-> "is_valid", ret |-> valid', queried |-> TRUE,
                        after_false |-> seen_false]
            /\ UNCHANGED bind_cobj
    /\ seen_false' = (seen_false \/ ~sret'.ret)
    /\ UNCHANGED <<bound, cobjs, skind, smap_data, smap_heap, smap_ub>>

\* the scene changes between two calls: objects are removed, moved, replaced
cobjs_change ==
    /\ cobjs' \in CobjWorlds \ {cobjs}
    /\ UNCHANGED <<bound, valid, bind_cobj, seen_false, skind, smap_data, smap_heap,
                   smap_ub, sret>>

\* line 310: smap_data->free_gl_state(); delete smap_data; on a non-null
\* pointer.  The pointer keeps its value.  On an object deleted before, both
\* are undefined: the model records the event and follows the heap no further
free_gl_state_effect ==
    /\ smap_data' = smap_data
    /\ IF smap_data = 0 \/ smap_ub # "none"
       THEN UNCHANGED <<smap_heap, smap_ub>>
       ELSE IF smap_heap[smap_data] = "freed"
       THEN smap_ub' = "double_free" /\ UNCHANGED smap_heap
       ELSE smap_heap' = [smap_heap EXCEPT ![smap_data] = "freed"] /\ UNCHANGED smap_ub

\* lines 309-311
free_gl_state ==
    /\ free_gl_state_effect
    /\ sret' = [op |-> "free_gl_state", ret |-> smap_data # 0, queried |-> FALSE,
                after_false |-> FALSE]
    /\ UNCHANGED <<bound, valid, bind_cobj, cobjs, seen_false, skind>>

\* lines 325-327: free_gl_state() of every light of light_sources_d
free_light_source_gl_state ==
    /\ free_gl_state_effect
    /\ sret' = [op |-> "free_light_source_gl_state", ret |-> smap_data # 0,
                queried |-> FALSE, after_false |-> FALSE]
    /\ UNCHANGED <<bound, valid, bind_cobj, cobjs, seen_false, skind>>

\* lines 298-307; ret tells whether line 306 was reached
check_shadow_map ==
    /\ IF skind = "line" \/ skind = "point" \/ ~enabled
       THEN /\ UNCHANGED <<smap_data, smap_heap, smap_ub>>
            /\ sret' = [op |-> "check_shadow_map", ret |-> FALSE, queried |-> FALSE,
                        after_false |-> FALSE]
       ELSE /\ IF smap_data = 0
               THEN /\ smap_heap' = Append(smap_heap, "live")
                    /\ smap_data' = Len(smap_heap) + 1
                    /\ UNCHANGED smap_ub
               ELSE /\ UNCHANGED <<smap_data, smap_heap>>
                    /\ smap_ub' = IF smap_ub = "none" /\ smap_heap[smap_data] = "freed"
                                  THEN "use_after_free" ELSE smap_ub
            /\ sret' = [op |-> "check_shadow_map", ret |-> TRUE, queried |-> FALSE,
                        after_false |-> FALSE]
    /\ UNCHANGED <<bound, valid, bind_cobj, cobjs, seen_false, skind>>

\* lines 266-278 with line 268: the shadow map is freed when the binding
\* point has been found invalid
smap_advance_timestep(ft) ==
    /\ advance_timestep(ft)
    /\ IF ~valid THEN free_gl_state_effect ELSE UNCHANGED <<smap_data, smap_heap, smap_ub>>
    /\ sret' = [op |-> "advance_timestep", ret |-> ~valid /\ smap_data # 0,
                queried |-> FALSE, after_false |-> FALSE]
    /\ UNCHANGED <<bound, valid, bind_cobj, cobjs, seen_false, skind>>

----------------------------------------------------------------------------
(* Specifications *)

\* the building creator, with the lights left as constructed
Init == BuildingInit /\ TrigFrozen /\ LightFrozen /\ VisFrozen /\ RgenFrozen /\ SmapFrozen
Next ==
    \/ \E c \in GenCalls : gen_begin(c[1], c[2]) /\ UNCHANGED <<tvars, lvars, vvars, dvars, svars>>
    \/ gen_attempt /\ UNCHANGED <<tvars, lvars, vvars, dvars, svars>>
    \/ gen_placed /\ UNCHANGED <<tvars, lvars, vvars, dvars, svars>>
    \/ \E w \in DOMAIN wpc : conform_flatten(w) /\ UNCHANGED <<tvars, lvars, vvars, dvars, svars>>
    \/ \E w \in DOMAIN wpc : conform_drop(w) /\ UNCHANGED <<tvars, lvars, vvars, dvars, svars>>
    \/ \E w \in DOMAIN wpc : conform_inc_load(w) /\ UNCHANGED <<tvars, lvars, vvars, dvars, svars>>
    \/ \E w \in DOMAIN wpc : conform_inc_store(w) /\ UNCHANGED <<tvars, lvars, vvars, dvars, svars>>
    \/ gen_end /\ UNCHANGED <<tvars, lvars, vvars, dvars, svars>>
    \/ \E q \in CollQueries : check_sphere_coll(q) /\ UNCHANGED <<tvars, lvars, vvars, dvars, svars>>
    \/ \E vis \in SUBSET (0..(Len(buildings) - 1)) : draw(vis) /\ UNCHANGED <<tvars, lvars, vvars, dvars, svars>>
Spec == Init /\ [][Next]_vars

\* a trigger light under any interleaving of frames and activation checks
InitTrig == TrigInit /\ BuildingInit /\ LightFrozen /\ VisFrozen /\ RgenFrozen /\ SmapFrozen
NextTrig ==
    \/ \E ft \in FticksSet : advance_timestep(ft) /\ UNCHANGED <<bvars, lvars, vvars, dvars, svars>>
    \/ \E pm \in PlayerModes : check_activate(pm) /\ UNCHANGED <<bvars, lvars, vvars, dvars, svars>>
SpecTrig == InitTrig /\ [][NextTrig]_vars

\* two lights under merges, combinations and packing
InitLight == LightInit /\ BuildingInit /\ TrigFrozen /\ VisFrozen /\ RgenFrozen /\ SmapFrozen
NextLight ==
    \/ try_merge_into /\ UNCHANGED <<bvars, tvars, vvars, dvars, svars>>
    \/ do_combine_with /\ UNCHANGED <<bvars, tvars, vvars, dvars, svars>>
    \/ do_pack_to_floatv /\ UNCHANGED <<bvars, tvars, vvars, dvars, svars>>
    \/ do_get_intensity_at /\ UNCHANGED <<bvars, tvars, vvars, dvars, svars>>
SpecLight == InitLight /\ [][NextLight]_vars

\* gen() run again and again with the same arguments in the same epoch
InitRgen == BuildingInit /\ RgenFrozen /\ TrigFrozen /\ LightFrozen /\ VisFrozen /\ SmapFrozen
NextRgen ==
    \/ \E c \in RgenCalls : rgen_gen_begin(c[1], c[2]) /\ UNCHANGED <<tvars, lvars, vvars, svars>>
    \/ rgen_gen_attempt /\ UNCHANGED <<tvars, lvars, vvars, svars>>
    \/ gen_placed /\ UNCHANGED <<tvars, lvars, vvars, dvars, svars>>
    \/ \E w \in DOMAIN wpc : conform_flatten(w) /\ UNCHANGED <<tvars, lvars, vvars, dvars, svars>>
    \/ \E w \in DOMAIN wpc : conform_drop(w) /\ UNCHANGED <<tvars, lvars, vvars, dvars, svars>>
    \/ \E w \in DOMAIN wpc : conform_inc_load(w) /\ UNCHANGED <<tvars, lvars, vvars, dvars, svars>>
    \/ \E w \in DOMAIN wpc : conform_inc_store(w) /\ UNCHANGED <<tvars, lvars, vvars, dvars, svars>>
    \/ gen_end /\ UNCHANGED <<tvars, lvars, vvars, dvars, svars>>
SpecRgen == InitRgen /\ [][NextRgen]_vars

\* is_visible called again and again on one light while the world changes
InitVis == VisInit /\ BuildingInit /\ TrigFrozen /\ LightFrozen /\ RgenFrozen /\ SmapFrozen
NextVis ==
    \/ \E w \in VisWorlds : is_visible_begin(w) /\ UNCHANGED <<bvars, tvars, lvars, dvars, svars>>
    \/ vis_pick_perimeter /\ UNCHANGED <<bvars, tvars, lvars, dvars, svars>>
    \/ vis_pick_directional /\ UNCHANGED <<bvars, tvars, lvars, dvars, svars>>
    \/ vis_pick_sphere /\ UNCHANGED <<bvars, tvars, lvars, dvars, svars>>
    \/ vis_cast /\ UNCHANGED <<bvars, tvars, lvars, dvars, svars>>
SpecVis == InitVis /\ [][NextVis]_vars

\* the calls that reach the ray loop, on a light with or without a beam; a
\* call that has started is not suspended for ever
InitVisLoop == InitVis /\ (vl = VisBase \/ is_directional(vl))
NextVisLoop ==
    \/ is_visible_begin(ClosedWorld) /\ UNCHANGED <<bvars, tvars, lvars, dvars, svars>>
    \/ vis_pick_perimeter /\ UNCHANGED <<bvars, tvars, lvars, dvars, svars>>
    \/ vis_pick_directional /\ UNCHANGED <<bvars, tvars, lvars, dvars, svars>>
    \/ vis_pick_sphere /\ UNCHANGED <<bvars, tvars, lvars, dvars, svars>>
    \/ vis_cast /\ UNCHANGED <<bvars, tvars, lvars, dvars, svars>>
SpecVisFair == InitVisLoop /\ [][NextVisLoop]_vars /\ WF_vars(NextVisLoop /\ vpc # "idle")

\* a placed trigger light with a binding point and a shadow map, under any
\* order of frames, activations, validity checks, shadow map updates and frees
SmapTriggers ==
    {[is_active |-> FALSE, auto_off_time |-> 0, auto_on_time |-> 0],
     [is_active |-> TRUE, auto_off_time |-> 1, auto_on_time |-> 0]}
InitSmap ==
    /\ SmapInit /\ TrigInit /\ triggers \in SmapTriggers
    /\ BuildingInit /\ LightFrozen /\ VisFrozen /\ RgenFrozen
NextSmap ==
    \/ is_valid /\ UNCHANGED <<bvars, tvars, lvars, vvars, dvars>>
    \/ cobjs_change /\ UNCHANGED <<bvars, tvars, lvars, vvars, dvars>>
    \/ check_shadow_map /\ UNCHANGED <<bvars, tvars, lvars, vvars, dvars>>
    \/ free_gl_state /\ UNCHANGED <<bvars, tvars, lvars, vvars, dvars>>
    \/ free_light_source_gl_state /\ UNCHANGED <<bvars, tvars, lvars, vvars, dvars>>
    \/ \E ft \in FticksSet : smap_advance_timestep(ft) /\ UNCHANGED <<bvars, lvars, vvars, dvars>>
    \/ \E pm \in PlayerModes : check_activate(pm) /\ UNCHANGED <<bvars, lvars, vvars, dvars, svars>>
SpecSmap == InitSmap /\ [][NextSmap]_vars

\* a light that a trigger has just switched on, with an auto off time: frames
\* go by, and the calls of check_activate are those in which no trigger fires.
\* inactive_time is what the off period before the activation left
InitTrigLit ==
    /\ triggers \in {t \in TriggerSet : t.is_active /\ t.auto_off_time > 0}
    /\ active_time = triggers.auto_off_time * TICKS_PER_SECOND
    /\ inactive_time \in {0, 25}
    /\ enabled \in BOOLEAN
    /\ tlast = NoCall
    /\ BuildingInit /\ LightFrozen /\ VisFrozen /\ RgenFrozen /\ SmapFrozen
NextTrigLit ==
    \/ \E ft \in FticksSet : advance_timestep(ft) /\ UNCHANGED <<bvars, lvars, vvars, dvars, svars>>
    \/ (trigger_mode(triggers, inactive_time, 0) = 0 /\ check_activate(0)
           /\ UNCHANGED <<bvars, lvars, vvars, dvars, svars>>)
SpecTrigLit ==
    InitTrigLit /\ [][NextTrigLit]_vars
        /\ WF_vars(\E ft \in FticksSet :
                      advance_timestep(ft) /\ UNCHANGED <<bvars, lvars, vvars, dvars, svars>>)

----------------------------------------------------------------------------
(* Claims about the building generator, the grid and the queries *)

NonZero(i) == ~is_all_zeros(buildings[i].bcube)

\* C1: after gen() completes, no two buildings with a non-zeroed box have
\* overlapping XY projections.
C1_NoOverlapAfterGen ==
    pc = "done" =>
        \A i, j \in 1..Len(buildings) :
            (i < j /\ NonZero(i) /\ NonZero(j))
                => ~intersects_xy(buildings[i].bcube, buildings[j].bcube)

\* gen() finished with two valid buildings in the same row of the range, the
\* second of them accepted next to the first
C1_Witness ==
    /\ pc = "done"
    /\ \E i, j \in 1..Len(buildings) :
          /\ i < j /\ NonZero(i) /\ NonZero(j)
          /\ buildings[i].bcube[2] = buildings[j].bcube[2]

\* the query boxes of C2: inside the range, across its border, and outside it
QueryIntervals == {<<-8, -3>>, <<-3, 4>>, <<9, 12>>, <<18, 22>>, <<29, 36>>, <<35, 40>>}
QueryBoxes == {<<ix, iy, <<0, 1>>>> : ix \in QueryIntervals, iy \in QueryIntervals}

\* the buildings the cells of get_grid_range(q) list
grid_query(g, rng, q) ==
    UNION {{get_grid_elem(g, k).ixs[j] : j \in 1..Len(get_grid_elem(g, k).ixs)} :
              k \in range_cells(get_grid_range(rng, q)) \cap DOMAIN g.cells}

\* C2: whatever was inserted, the cells of get_grid_range(q) list every
\* (valid) building whose box intersects q in XY, clamped or not.
C2_GridNoFalseNegatives ==
    pc # "idle" =>
        \A q \in QueryBoxes : \A i \in 1..Len(buildings) :
            (NonZero(i) /\ intersects_xy(buildings[i].bcube, q))
                => (i - 1) \in grid_query(grid, range, q)

OutsideRange(rng, c) ==
    \E d \in 1..2 : c[d][2] < rng[d][1] \/ c[d][1] > rng[d][2]

\* a query box wholly outside the range finds a building that sticks out of it
C2_Witness ==
    /\ pc = "done"
    /\ \E q \in QueryBoxes : \E i \in 1..Len(buildings) :
          /\ OutsideRange(range, q)
          /\ NonZero(i) /\ intersects_xy(buildings[i].bcube, q)
          /\ (i - 1) \in grid_query(grid, range, q)

\* C3: the terrain conformance pass has no data race: no two workers have
\* unsynchronised accesses to the same variable pending, one of them a write.
C3_NoDataRace ==
    ~ \E v, w \in DOMAIN wpc :
         /\ v # w
         /\ wpc[v] \in {"inc_load", "inc_store"}
         /\ wpc[w] = "inc_store"

\* C10: a building with an all-zero box is never the building a collision
\* query reports or corrects pos for, and draw() emits nothing for it.
C10_ZeroedSkipped ==
    /\ ret.op = "coll" =>
          /\ ret.hit => ~is_all_zeros(buildings[ret.ix + 1].bcube)
          /\ ~ret.hit => ret.pos = ret.q.pos
    /\ ret.op = "draw" =>
          \A i \in ret.drawn : ~is_all_zeros(buildings[i + 1].bcube)

\* a query whose sphere reaches the all-zero box of a building that is still
\* listed in a cell the query walks
C10_Witness ==
    /\ pc = "done" /\ ret.op = "coll"
    /\ \E k \in coll_query_cells(range, ret.q.pos, ret.q.radius, ret.q.xlate)
                   \cap DOMAIN grid.cells :
          \E j \in 1..Len(grid.cells[k].ixs) :
             /\ is_all_zeros(buildings[grid.cells[k].ixs[j] + 1].bcube)
             /\ sphere_cube_intersect(ret.q.pos, ret.q.radius + p2p_dist(ret.q.pos, ret.q.p_last),
                                      cube_plus_xlate(grid.cells[k].bcube, ret.q.xlate))
             /\ sphere_cube_intersect(ret.q.pos, ret.q.radius,
                                      cube_plus_xlate(ZeroCube, ret.q.xlate))

----------------------------------------------------------------------------
(* Claims about the trigger light *)

\* the statement of C4 as written: once a call has been made on a trigger
\* controlled light, enabled is true exactly when active_time > 0
C4_EnabledIffActive ==
    (triggers.is_active /\ tlast.op # "none") => (enabled <=> active_time > 0)

\* C4: enabled is refreshed by advance_timestep alone, from active_time as it
\* is when the call starts (before the auto off decrement), and only when the
\* trigger set is active; check_activate never changes enabled.
C4_EnabledFollowsFrame ==
    [][/\ (tlast'.op = "advance_timestep" /\ triggers.is_active)
              => (enabled' <=> active_time > 0)
       /\ (tlast'.op = "advance_timestep" /\ ~triggers.is_active)
              => enabled' = enabled
       /\ tlast'.op = "check_activate" => enabled' = enabled]_vars

\* the frame in which the auto off time runs out: active_time has reached 0
\* and enabled is still true
C4_Witness ==
    /\ tlast.op = "advance_timestep"
    /\ triggers.is_active /\ triggers.auto_off_time > 0
    /\ enabled /\ active_time = 0

\* C5: with auto_off_time = 0, a check_activate call in which a trigger fires
\* takes active_time from 0 to 1 * TICKS_PER_SECOND and from any other value
\* to 0.
C5_ToggleWithoutAutoOff ==
    [][(tlast'.op = "check_activate" /\ tlast'.mode # 0 /\ triggers.auto_off_time = 0)
          => active_time' = (IF active_time = 0 THEN 1 * TICKS_PER_SECOND ELSE 0)]_vars

\* a proximity trigger has switched on a light that has no auto off time
C5_Witness ==
    /\ tlast.op = "check_activate" /\ tlast.mode = 1
    /\ triggers.auto_off_time = 0
    /\ active_time = 1 * TICKS_PER_SECOND
    /\ enabled

----------------------------------------------------------------------------
(* Claims about merging and packing lights *)

\* the rejection conditions C6 lists, for s.try_merge_into(l)
C6_Rejection(s, l) ==
    \/ l.radius < s.radius
    \/ 25 * p2p_dist_sq(s.pos, l.pos) > Min(HALF_DXY, s.radius) * Min(HALF_DXY, s.radius)
    \/ l.bwidth # s.bwidth
    \/ l.r_inner # s.r_inner
    \/ l.dynamic # s.dynamic
    \/ (is_directional(s) /\ dot_product(s.dir, l.dir) < 9500)
    \/ is_line_light(s)
    \/ is_line_light(l)
    \/ is_neg_light(s) # is_neg_light(l)

\* C6: try_merge_into(ls) returns false and leaves ls unchanged whenever one
\* of the listed rejection conditions holds.
C6_RejectLeavesTarget ==
    [][(lret'.op = "try_merge_into" /\ C6_Rejection(src, ls))
          => (~lret'.ret /\ ls' = ls)]_vars

\* a merge refused for the one reason that the target is a line light
C6_Witness ==
    /\ lret.op = "try_merge_into" /\ ~lret.ret
    /\ is_line_light(ls)
    /\ ~try_merge_rejects_no_line(src, ls)

\* the lights of C7: two non-directional point lights with equal non-zero
\* radius r, positions 0.1*r apart, the same bwidth, r_inner and dynamic flag
C7_Scenario(s, l) ==
    /\ ~is_directional(s) /\ ~is_directional(l)
    /\ ~is_line_light(s) /\ ~is_line_light(l)
    /\ s.radius = l.radius /\ s.radius > 0
    /\ 100 * p2p_dist_sq(s.pos, l.pos) = s.radius * s.radius
    /\ l.bwidth = s.bwidth /\ l.r_inner = s.r_inner /\ l.dynamic = s.dynamic

\* the statement of C7 as written: the merge succeeds and the merged radius
\* is the cube root of the summed cubes
C7_MergedRadiusCubeRoot ==
    [][(lret'.op = "try_merge_into" /\ C7_Scenario(src, ls))
          => (lret'.ret /\ ls'.radius = combine_radius(src.radius, ls.radius))]_vars

\* C7: for the lights of the scenario, when they also have the same negative
\* light polarity and r < 2 * HALF_DXY, try_merge_into succeeds; it adds the
\* source colour to the target and leaves the target's radius and position as
\* they are.
C7_MergeKeepsRadius ==
    [][(/\ lret'.op = "try_merge_into"
        /\ C7_Scenario(src, ls)
        /\ is_neg_light(src) = is_neg_light(ls)
        /\ src.radius < 2 * HALF_DXY)
          => /\ lret'.ret
             /\ ls'.radius = ls.radius /\ ls'.pos = ls.pos
             /\ ls'.color = add_color(ls.color, src.color)]_vars

\* an accepted merge of two lights of the scenario; the cube root of the
\* summed cubes is not the radius the target has
C7_Witness ==
    /\ lret.op = "try_merge_into" /\ lret.ret
    /\ C7_Scenario(src, ls)
    /\ ls.radius # combine_radius(src.radius, ls.radius)
    /\ ls.color[1] = 2 * src.color[1]

\* the statement of C8 as written, the 8th float being data[8] of the model
C8_EighthFloatZeroIffLine ==
    lret.op = "pack_to_floatv" => (lret.data[8] = 0 <=> is_line_light(src))

\* C8: the bwidth slot is the 12th float, and it is exactly 0 if and only if
\* the light is a line light; the 8th float is the colour's alpha.
C8_BwidthSlotZeroIffLine ==
    lret.op = "pack_to_floatv" =>
        /\ (lret.data[12] = 0 <=> is_line_light(src))
        /\ lret.data[8] = src.color[4]

\* a packed line light: the last float is 0, the 8th is not
C8_Witness ==
    /\ lret.op = "pack_to_floatv"
    /\ is_line_light(src)
    /\ lret.data[12] = 0 /\ lret.data[8] # 0

\* 0.5*(1 + c) in fixed point
C9_remap(c) == (100 + c) \div 2

\* C9: the buffer is 12 floats: position, radius, remapped RGB, alpha, then
\* the second endpoint and 0 for a line light, the remapped direction and
\* bwidth otherwise; the last float is 0 only for a line light.
C9_PackLayout ==
    lret.op = "pack_to_floatv" =>
        LET d == lret.data
        IN  /\ Len(d) = 12
            /\ SubSeq(d, 1, 3) = src.pos
            /\ d[4] = src.radius
            /\ \A i \in 1..3 : d[4 + i] = C9_remap(src.color[i])
            /\ d[8] = src.color[4]
            /\ is_line_light(src) => (SubSeq(d, 9, 11) = src.pos2 /\ d[12] = 0)
            /\ ~is_line_light(src) =>
                  /\ \A i \in 1..3 : d[8 + i] = C9_remap(src.dir[i])
                  /\ d[12] = src.bwidth
            /\ d[12] = 0 => is_line_light(src)

\* a packed spot light whose axis has two non-zero components
C9_Witness ==
    /\ lret.op = "pack_to_floatv"
    /\ is_directional(src)
    /\ src.dir = <<96, 28, 0>>
    /\ lret.data = <<0, 0, 0, 10, 100, 100, 100, 100, 98, 64, 50, 50>>

----------------------------------------------------------------------------
(* Claims about is_visible *)

C12_RayCacheStaticOnly ==
    /\ [](\A k \in DOMAIN ray_map :
             ray_map[k].cindex < 0 \/ truly_static(ray_map[k].cindex))
    /\ [][\A k \in DOMAIN ray_map :
             k \in DOMAIN ray_map' /\ ray_map'[k] = ray_map[k]]_vars

\* a ray that hit a cobj that is not truly static has just been cast and is
\* not in the cache, which holds entries of an earlier call
C12_Witness ==
    /\ vpc = "ray" /\ vn > 0
    /\ world.hit = "dynamic"
    /\ ray_map # <<>>
    /\ ray_key(vl, vn - 1, ray_dir) \notin DOMAIN ray_map

\* C13: is_visible returns false for a disabled light, of infinite range or
\* not, and true for an enabled light of radius 0, whatever the services say.
C13_DisabledNeverInfiniteAlways ==
    vret.op = "is_visible" =>
        /\ ~vl.enabled => ~vret.ret
        /\ (vl.enabled /\ vl.radius = 0) => vret.ret

\* a disabled light of infinite range was found not visible
C13_Witness ==
    /\ vret.op = "is_visible" /\ ~vret.ret
    /\ ~vl.enabled /\ vl.radius = 0
    /\ world.frustum /\ ~world.occluded

----------------------------------------------------------------------------
(* Claims about gen(), second part *)

\* one building, no placement radius, a fixed non-zero size, flat terrain,
\* the water below the ground
C14_Scenario ==
    /\ params.num = 1 /\ params.place_radius = 0
    /\ \A d \in 1..3 : params.sz_range[d][1] = params.sz_range[d][2]
                         /\ params.sz_range[d][1] > 0
    /\ env.terrain = "flat" /\ env.water < 0

\* C14: in that scenario gen() ends with exactly one building, whose box is
\* not all zeros, with or without the terrain conformance pass.
C14_OneBuildingPlaced ==
    (pc = "done" /\ C14_Scenario) => (Len(buildings) = 1 /\ NonZero(1))

\* the scenario, after a conformance pass that extends the buildings downwards
C14_Witness ==
    /\ pc = "done" /\ C14_Scenario
    /\ params.flatten_mesh /\ ~env.tiled
    /\ Len(buildings) = 1 /\ NonZero(1)

\* C15: a run of gen() that follows a run with the same parameters, epoch
\* counter, terrain and water level ends with the same building list and the
\* same grid, though it started from what the earlier run had left.
C15_SameRunSameResult ==
    (pc = "done" /\ prev.run) => (buildings = prev.buildings /\ grid = prev.grid)

\* a second run has ended as the first: a placement try was rejected on the
\* way, and a box was zeroed by the conformance pass
C15_Witness ==
    /\ pc = "done" /\ prev.run
    /\ Len(tape) > Len(buildings)
    /\ \E i \in 1..Len(buildings) : ~NonZero(i)
    /\ buildings = prev.buildings

\* the squared distance of p from the light, times m * m (m = 1, or the squared
\* length of a line light): from the nearer end of the segment when the foot of
\* the perpendicular is outside it, by Pythagoras otherwise
light_dist_sq(l, p) ==
    IF ~is_line_light(l) THEN p2p_dist_sq(l.pos, p)
    ELSE LET L == [i \in 1..3 |-> l.pos2[i] - l.pos[i]]
             m == dot_product(L, L)
             d == dot_product([i \in 1..3 |-> p[i] - l.pos[i]], L)
         IN  IF d <= 0 THEN m * m * p2p_dist_sq(l.pos, p)
             ELSE IF d >= m THEN m * m * p2p_dist_sq(l.pos2, p)
             ELSE m * (m * p2p_dist_sq(l.pos, p) - d * d)

\* the radius in the units of light_dist_sq
light_radius_sq(l) ==
    IF is_line_light(l)
    THEN l.radius * l.radius * p2p_dist_sq(l.pos, l.pos2) * p2p_dist_sq(l.pos, l.pos2)
    ELSE l.radius * l.radius

\* C16: for a light with radius > 0, get_intensity_at is 0 at a point farther
\* than radius from the light (from its segment, for a line light), lies in
\* [0, color.alpha] everywhere, and is no larger at any point that is at least
\* as far away.
C16_IntensityFallsOff ==
    (lret.op = "get_intensity_at" /\ ls.radius > 0) =>
        LET p == lret.data[1]
            v == lret.data[2]
        IN  /\ light_dist_sq(ls, p) > light_radius_sq(ls) => v = 0
            /\ 0 <= v /\ v <= ls.color[4]
            /\ \A q \in IntensityPoints :
                  light_dist_sq(ls, q) >= light_dist_sq(ls, p)
                      => get_intensity_at(ls, q) <= v

\* a line light asked about a point beyond its second end and within its
\* radius: the light reaches it, attenuated
C16_Witness ==
    /\ lret.op = "get_intensity_at" /\ ls.radius > 0 /\ is_line_light(ls)
    /\ LET L == [i \in 1..3 |-> ls.pos2[i] - ls.pos[i]]
       IN  dot_product([i \in 1..3 |-> lret.data[1][i] - ls.pos[i]], L) > dot_product(L, L)
    /\ lret.data[2] > 0 /\ lret.data[2] < ls.color[4]

\* C17: a placement attempt that places nothing and is not the last of the
\* building's 10 is followed by the next attempt for the same building: the
\* building is given up only by the attempt numbered NumPlaceTries - 1.
C17_FailedAttemptRetries ==
    [][(pc = "place" /\ buildings' = buildings /\ gn < NumPlaceTries - 1)
          => (gi' = gi /\ gn' = gn + 1)]_vars

\* C18: while gen() places buildings, the box of every accepted building,
\* expanded by 10% of its size, intersects in XY the box of no building placed
\* before it.
C18_MarginKept ==
    pc \in {"place", "placed"} =>
        \A j \in 1..Len(buildings) : \A i \in 1..(j - 1) :
            ~intersects_xy(expand_by_tenth(buildings[j].bcube),
                           times_ten(buildings[i].bcube))

\* C19: after gen(), conformance pass included, the bounding box of every
\* grid cell contains in x, y and z the box of every non-zeroed building the
\* cell lists.
C19_CellBoxContainsListed ==
    pc = "done" =>
        \A k \in DOMAIN grid.cells :
            LET ge == get_grid_elem(grid, k)
            IN  \A j \in 1..Len(ge.ixs) :
                    NonZero(ge.ixs[j] + 1) =>
                        \A d \in 1..3 :
                            /\ ge.bcube[d][1] <= buildings[ge.ixs[j] + 1].bcube[d][1]
                            /\ buildings[ge.ixs[j] + 1].bcube[d][2] <= ge.bcube[d][2]

\* C20: every non-zeroed building whose box is within radius plus the travel
\* distance |pos - p_last| of pos is listed in one of the grid cells that
\* check_sphere_coll visits.
C20_QueryCoversSweep ==
    ret.op = "coll" =>
        LET q == ret.q
            cells == coll_query_cells(range, q.pos, q.radius, q.xlate) \cap DOMAIN grid.cells
        IN  \A i \in 1..Len(buildings) :
                (/\ NonZero(i)
                 /\ sphere_cube_intersect(q.pos, q.radius + p2p_dist(q.pos, q.p_last),
                                          cube_plus_xlate(buildings[i].bcube, q.xlate)))
                    => \E k \in cells :
                           \E j \in 1..Len(get_grid_elem(grid, k).ixs) :
                               get_grid_elem(grid, k).ixs[j] = i - 1

\* C21: every shadow map object that is created is freed at most once and is
\* never used after it has been freed; a light holds no freed object.
C21_SmapFreedOnceNeverUsedAfter ==
    /\ smap_ub = "none"
    /\ smap_data # 0 => smap_heap[smap_data] = "live"

\* C22: is_valid of an unbound point returns true; of a bound point, once a
\* call has returned false, every later call returns false and makes no
\* containment query, whatever the collision objects have become.
C22_IsValidMonotone ==
    sret.op = "is_valid" =>
        /\ ~bound => sret.ret
        /\ (bound /\ sret.after_false) => (~sret.ret /\ ~sret.queried)

\* a bound point found invalid is asked again when a static object contains
\* its position once more
C22_Witness ==
    /\ sret.op = "is_valid" /\ bound /\ sret.after_false
    /\ containing_cobjs(cobjs) # {}
    /\ bind_cobj > 0

\* C23: with an active trigger and auto_off_time > 0, active_time is never
\* negative, and a lit light on which frames go by with positive tick counts
\* and no trigger fires comes to active_time = 0 and to enabled = FALSE.
C23_LitLightGoesOff ==
    /\ []((triggers.is_active /\ triggers.auto_off_time > 0) => active_time >= 0)
    /\ (triggers.is_active /\ triggers.auto_off_time > 0 /\ active_time > 0)
           ~> (active_time = 0)
    /\ (triggers.is_active /\ triggers.auto_off_time > 0 /\ active_time > 0)
           ~> (active_time = 0 /\ ~enabled)

\* the frame after the one in which the auto off time ran out
C23_Witness ==
    /\ tlast.op = "advance_timestep"
    /\ triggers.is_active /\ triggers.auto_off_time > 0
    /\ active_time = 0 /\ ~enabled /\ inactive_time <= 25

\* C24: a check_activate call in which no trigger bit fires returns false and
\* leaves active_time, inactive_time and enabled as they were.
C24_NothingFiredNothingChanged ==
    [][(tlast'.op = "check_activate" /\ tlast'.mode = 0)
          => (/\ ~tlast'.ret
              /\ active_time' = active_time
              /\ inactive_time' = inactive_time
              /\ enabled' = enabled)]_vars

\* a call in which nothing fired, on a lit light with an off period behind it
C24_Witness ==
    /\ tlast.op = "check_activate" /\ tlast.mode = 0 /\ ~tlast.ret
    /\ triggers.is_active /\ triggers.auto_on_time > 0
    /\ active_time > 0 /\ inactive_time > 0

\* C25: with auto_off_time > 0, a fired trigger with the action bit takes
\* active_time from 0 to auto_off_time * TICKS_PER_SECOND and from any other
\* value to 0; a fired trigger without the action bit sets it to
\* auto_off_time * TICKS_PER_SECOND whatever it was.
C25_ActionTogglesOthersReset ==
    [][(tlast'.op = "check_activate" /\ tlast'.mode # 0 /\ triggers.auto_off_time > 0)
          => (/\ tlast'.ret
              /\ active_time' =
                     IF (tlast'.mode \div 2) % 2 = 1 /\ active_time # 0 THEN 0
                     ELSE triggers.auto_off_time * TICKS_PER_SECOND)]_vars

\* an action has switched off a light whose auto off time was running
C25_Witness ==
    /\ tlast.op = "check_activate" /\ (tlast.mode \div 2) % 2 = 1
    /\ triggers.auto_off_time > 0
    /\ active_time = 0 /\ enabled

\* C26: whenever the auto on bit fires in check_activate, the light is off
\* (active_time = 0) when the call starts and on when it returns.
C26_AutoOnFiresOnlyWhenOff ==
    [][(tlast'.op = "check_activate" /\ tlast'.mode >= 4)
          => (active_time = 0 /\ active_time' > 0 /\ inactive_time' = 0)]_vars

\* the auto on time has switched on a light in toggle mode
C26_Witness ==
    /\ tlast.op = "check_activate" /\ tlast.mode >= 4
    /\ triggers.auto_off_time = 0
    /\ active_time = 1 * TICKS_PER_SECOND /\ inactive_time = 0

====
